---- MODULE Spec2Model ----
(***************************************************************************)
(* Model of cometspy/comets.py: the comets object, its run() method, the   *)
(* flux demultiplexer build_readable_flux_object() and the three image     *)
(* accessors get_metabolite_image / get_biomass_image / get_flux_image.    *)
(*                                                                         *)
(* Tables (pandas DataFrames) are sequences of rows in file order.  An     *)
(* attribute that run() has not assigned yet is a record with set = FALSE; *)
(* reading it raises AttributeError.  The external engine is deterministic *)
(* for one layout: the logs it writes are fixed in engine_logs.            *)
(***************************************************************************)
EXTENDS Integers, Sequences, FiniteSets, TLC

VARIABLES layout, all_params, engine_logs, disk, run_output,
          total_biomass, fluxes, fluxes_by_species, media, biomass,
          genotypes, specific_media, ret

vars == <<layout, all_params, engine_logs, disk, run_output,
          total_biomass, fluxes, fluxes_by_species, media, biomass,
          genotypes, specific_media, ret>>

tables == <<total_biomass, fluxes, fluxes_by_species, media, biomass,
            genotypes, specific_media>>

(***************************************************************************)
(* Bounds of the model.                                                    *)
(***************************************************************************)
MaxModels == 2
MaxMediaRows == 3
MaxBiomassRows == 2
MaxFluxRows == 2

Ids == {"A", "B", "C"}
RxnNames == <<"r1", "r2">>
Mets == {"glc", "ac"}
Cycles == {1, 2}
Vals == {5, 7}
GridShape == <<2, 3>>
\* record coordinates: two cells of the grid, x = 0 and y = 0 (one below the
\* 1-based range) and x = rows + 1 (one above it)
Coords == {<<1, 1>>, <<2, 1>>, <<0, 1>>, <<1, 0>>, <<3, 1>>}
\* value pandas puts in a field the file does not have
NaN == 0 - 1

QueryMets == Mets \cup {"lac"}
QueryCycles == Cycles
QueryReactions == {"r1", "r2", "x"}

Max(S) == CHOOSE m \in S : \A s \in S : s <= m

SeqsUpTo(S, n) == UNION {[1..k -> S] : k \in 1..n}

(***************************************************************************)
(* Tables.                                                                 *)
(***************************************************************************)
Unset == [set |-> FALSE, columns |-> <<>>, rows |-> <<>>]
Frame(cols, rws) == [set |-> TRUE, columns |-> cols, rows |-> rws]

MediaColumns == <<"metabolite", "cycle", "x", "y", "conc_mmol">>
BiomassColumns == <<"cycle", "x", "y", "species", "biomass">>
GenotypeColumns == <<"Ancestor", "Mutation", "Species">>

Range(s) == {s[i] : i \in DOMAIN s}

\* list(np.unique(table['cycle']))
UniqueCycles(rws) == {rws[i].cycle : i \in DOMAIN rws}

get_model_ids(models) == [i \in DOMAIN models |-> models[i].id]

(***************************************************************************)
(* numpy: np.zeros((rows, cols)) and the assignment im[i, j] = v.  An      *)
(* index in -n .. -1 counts from the end; outside -n .. n-1 is IndexError. *)
(***************************************************************************)
GridCells(shape) == (0..(shape[1] - 1)) \X (0..(shape[2] - 1))

Zeros(shape) == [p \in GridCells(shape) |-> 0]

NoGrid == [p \in {} |-> 0]

IndexOk(i, n) == i >= 0 - n /\ i <= n - 1

NpIndex(i, n) == IF i >= 0 THEN i ELSE i + n

RECURSIVE WriteCells(_, _, _, _)
\* for index, row in aux.iterrows(): im[int(x-1), int(y-1)] = value;
\* recs is the sequence of <<x, y, value>> in table order
WriteCells(im, shape, recs, k) ==
  IF k > Len(recs) THEN [ok |-> TRUE, im |-> im]
  ELSE LET i == recs[k][1] - 1
           j == recs[k][2] - 1
       IN IF IndexOk(i, shape[1]) /\ IndexOk(j, shape[2])
          THEN WriteCells([im EXCEPT ![<<NpIndex(i, shape[1]),
                                        NpIndex(j, shape[2])>>] = recs[k][3]],
                          shape, recs, k + 1)
          ELSE [ok |-> FALSE, im |-> im]

(***************************************************************************)
(* Outcome of a call: a returned value or a raised exception, together     *)
(* with the tables of the object that the call read.                       *)
(***************************************************************************)
Outcome(out, grid, rd) == [outcome |-> out, grid |-> grid, reads |-> rd]

(***************************************************************************)
(* run(), lines 289-298: reading the flux log and demultiplexing it.       *)
(***************************************************************************)
\* max_rows = 4 + max([len(m.reactions) for m in self.layout.models])
max_rows(models) == 4 + Max({Len(models[i].reactions) : i \in DOMAIN models})

\* pd.read_csv(FluxLogName, delim_whitespace=True, header=None,
\* names=range(max_rows)): a line with fewer fields than names is filled
\* with NaN on the right
ReadFluxRow(line, width) ==
  [j \in 1..width |-> IF j <= Len(line) THEN line[j] ELSE NaN]

ReadFluxCsv(file, width) ==
  Frame([j \in 1..width |-> j - 1],
        [k \in DOMAIN file |-> ReadFluxRow(file[k], width)])

\* the value columns taken with a slice from the end, row[:4] + row[4:][-n:],
\* which for n = 0 keeps every column
DropColumnsFrom_NegativeSlice(row, first) ==
  IF first = 4 THEN row
  ELSE SubSeq(row, 1, IF first < Len(row) THEN first ELSE Len(row))

\* sub_df.drop(sub_df.columns[first : len(sub_df.columns)], axis=1), on a row
DropColumnsFrom(row, first) ==
  SubSeq(row, 1, IF first < Len(row) THEN first ELSE Len(row))

\* the column before the one asked for is dropped
DropColumn_OffByOne(row, pos) ==
  SubSeq(row, 1, pos - 1) \o SubSeq(row, pos + 1, Len(row))

\* sub_df.drop(sub_df.columns[pos], axis=1), on a row
DropColumn(row, pos) ==
  SubSeq(row, 1, pos) \o SubSeq(row, pos + 2, Len(row))

\* the rows are selected with the 0-based position i instead of model_num
FluxSubFrame_ZeroBased(raw, models, model_num) ==
  LET model_rxn_names == models[model_num].reactions
      model_rxn_len == Len(model_rxn_names)
      sub_rows == SelectSeq(raw.rows, LAMBDA r : r[4] = model_num - 1)
      new_columns == <<"cycle", "x", "y">> \o model_rxn_names
  IN [ok |-> TRUE,
      frame |-> Frame(new_columns,
                      [k \in DOMAIN sub_rows |->
                         DropColumn(DropColumnsFrom(sub_rows[k],
                                                    model_rxn_len + 4), 3)])]

\* the body of the loop of build_readable_flux_object for model_num
FluxSubFrame(raw, models, model_num) ==
  LET model_rxn_names == models[model_num].reactions
      model_rxn_len == Len(model_rxn_names)
      sub_rows == SelectSeq(raw.rows, LAMBDA r : r[4] = model_num)
      cols1 == DropColumnsFrom(raw.columns, model_rxn_len + 4)
      cols2 == DropColumn(cols1, 3)
      new_columns == <<"cycle", "x", "y">> \o model_rxn_names
  IN [ok |-> Len(cols2) = Len(new_columns),
      frame |-> Frame(new_columns,
                      [k \in DOMAIN sub_rows |->
                         DropColumn(DropColumnsFrom(sub_rows[k],
                                                    model_rxn_len + 4), 3)])]

RECURSIVE BuildFrom(_, _, _, _)
\* for i in range(len(self.layout.models)): ... ; a length mismatch in
\* "sub_df.columns = ..." raises ValueError and leaves the dictionary as it is
BuildFrom(raw, models, i, dict) ==
  IF i > Len(models) THEN [ok |-> TRUE, dict |-> dict]
  ELSE LET sub == FluxSubFrame(raw, models, i)
       IN IF sub.ok
          THEN BuildFrom(raw, models, i + 1,
                         [id \in DOMAIN dict \cup {models[i].id} |->
                            IF id = models[i].id THEN sub.frame ELSE dict[id]])
          ELSE [ok |-> FALSE, dict |-> dict]

build_readable_flux_object(raw, models) ==
  BuildFrom(raw, models, 1, [id \in {} |-> Unset])

(***************************************************************************)
(* The image accessors, as functions of the current state of the object.   *)
(***************************************************************************)
\* get_metabolite_image without the check of writeMediaLog
get_metabolite_image_NoFlagCheck(met, cycle) ==
  IF met \notin layout.media
  THEN Outcome("NameError: met is not in layout.media.metabolite", NoGrid, {})
  ELSE IF ~media.set
  THEN Outcome("AttributeError", NoGrid, {"media"})
  ELSE IF cycle \notin UniqueCycles(media.rows)
  THEN Outcome("ValueError: media was not saved at the desired cycle",
               NoGrid, {"media"})
  ELSE LET aux == SelectSeq(media.rows,
                            LAMBDA r : r.cycle = cycle /\ r.metabolite = met)
           w == WriteCells(Zeros(layout.grid), layout.grid,
                           [k \in DOMAIN aux |->
                              <<aux[k].x, aux[k].y, aux[k].conc_mmol>>], 1)
       IN IF w.ok THEN Outcome("return", w.im, {"media"})
          ELSE Outcome("IndexError", NoGrid, {"media"})

get_metabolite_image(met, cycle) ==
  IF ~all_params.writeMediaLog
  THEN Outcome("ValueError: media log was not recorded", NoGrid, {})
  ELSE IF met \notin layout.media
  THEN Outcome("NameError: met is not in layout.media.metabolite", NoGrid, {})
  ELSE IF ~media.set
  THEN Outcome("AttributeError", NoGrid, {"media"})
  ELSE IF cycle \notin UniqueCycles(media.rows)
  THEN Outcome("ValueError: media was not saved at the desired cycle",
               NoGrid, {"media"})
  ELSE LET aux == SelectSeq(media.rows,
                            LAMBDA r : r.cycle = cycle /\ r.metabolite = met)
           w == WriteCells(Zeros(layout.grid), layout.grid,
                           [k \in DOMAIN aux |->
                              <<aux[k].x, aux[k].y, aux[k].conc_mmol>>], 1)
       IN IF w.ok THEN Outcome("return", w.im, {"media"})
          ELSE Outcome("IndexError", NoGrid, {"media"})

\* row[model_id] on a row of self.biomass: the column of that name
BiomassRowGet(row, key) ==
  CASE key = "cycle" -> row.cycle
    [] key = "x" -> row.x
    [] key = "y" -> row.y
    [] OTHER -> row.biomass

get_biomass_image(model_id, cycle) ==
  IF ~all_params.writeBiomassLog
  THEN Outcome("ValueError: biomass log was not recorded", NoGrid, {})
  ELSE IF model_id \notin Range(get_model_ids(layout.models))
  THEN Outcome("NameError: model is not one of the model ids", NoGrid, {})
  ELSE IF ~biomass.set
  THEN Outcome("AttributeError", NoGrid, {"biomass"})
  ELSE IF cycle \notin UniqueCycles(biomass.rows)
  THEN Outcome("ValueError: biomass was not saved at the desired cycle",
               NoGrid, {"biomass"})
  ELSE LET aux == SelectSeq(biomass.rows, LAMBDA r : r.cycle = cycle)
       IN IF model_id \notin Range(biomass.columns)
          THEN Outcome("KeyError", NoGrid, {"biomass"})
          ELSE IF model_id = "species"
          THEN Outcome("ValueError: could not convert string to float",
                       NoGrid, {"biomass"})
          ELSE LET w == WriteCells(Zeros(layout.grid), layout.grid,
                                   [k \in DOMAIN aux |->
                                      <<aux[k].x, aux[k].y,
                                        BiomassRowGet(aux[k], model_id)>>], 1)
               IN IF w.ok THEN Outcome("return", w.im, {"biomass"})
                  ELSE Outcome("IndexError", NoGrid, {"biomass"})

\* position of a column label in the columns of a frame
ColumnPos(columns, name) == CHOOSE j \in DOMAIN columns : columns[j] = name

get_flux_image(model_id, reaction_id, cycle) ==
  IF ~all_params.writeFluxLog
  THEN Outcome("ValueError: flux log was not recorded", NoGrid, {})
  ELSE IF model_id \notin Range(get_model_ids(layout.models))
  THEN Outcome("NameError: model is not one of the model ids", NoGrid, {})
  ELSE IF ~fluxes_by_species.set
  THEN Outcome("AttributeError", NoGrid, {"fluxes_by_species"})
  ELSE IF model_id \notin DOMAIN fluxes_by_species.dict
  THEN Outcome("KeyError", NoGrid, {"fluxes_by_species"})
  ELSE LET temp_fluxes == fluxes_by_species.dict[model_id]
           cyc == {temp_fluxes.rows[k][1] : k \in DOMAIN temp_fluxes.rows}
       IN IF cycle \notin cyc
          THEN Outcome("ValueError: flux was not saved at the desired cycle",
                       NoGrid, {"fluxes_by_species"})
          ELSE IF reaction_id \notin Range(temp_fluxes.columns)
          THEN Outcome("NameError: reaction_id is not a reaction in the desired model",
                       NoGrid, {"fluxes_by_species"})
          ELSE LET aux == SelectSeq(temp_fluxes.rows, LAMBDA r : r[1] = cycle)
                   pos == ColumnPos(temp_fluxes.columns, reaction_id)
                   w == WriteCells(Zeros(layout.grid), layout.grid,
                                   [k \in DOMAIN aux |->
                                      <<aux[k][2], aux[k][3], aux[k][pos]>>], 1)
               IN IF w.ok THEN Outcome("return", w.im, {"fluxes_by_species"})
                  ELSE Outcome("IndexError", NoGrid, {"fluxes_by_species"})

(***************************************************************************)
(* The external engine and the files of a run.                             *)
(***************************************************************************)
WorkingFiles == {".current_global", ".current_package", ".current_script",
                 ".current_layout"}
Manifest == "COMETS_manifest.txt"

\* the log files the engine writes for the parameters it is given
LogsWritten(p) ==
  {f \in {"total_biomass_log", "flux_log", "media_log", "biomass_log",
          "GENOTYPES_biomass_log", "specific_media_log"} :
     \/ f = "total_biomass_log" /\ p.writeTotalBiomassLog
     \/ f = "flux_log" /\ p.writeFluxLog
     \/ f = "media_log" /\ p.writeMediaLog
     \/ f = "biomass_log" /\ p.writeBiomassLog
     \/ f = "GENOTYPES_biomass_log" /\ p.evolution
     \/ f = "specific_media_log" /\ p.writeSpecificMediaLog}

\* if self.parameters.all_params['evolution']: ...
EvolutionParams(p) ==
  IF p.evolution
  THEN [p EXCEPT !.writeTotalBiomassLog = FALSE, !.writeBiomassLog = TRUE]
  ELSE p

Returned(op, entity, reaction, cycle, o) ==
  [op |-> op, entity |-> entity, reaction |-> reaction, cycle |-> cycle,
   outcome |-> o.outcome, grid |-> o.grid, reads |-> o.reads]

NoCall == Returned("__init__", "", "", 0, Outcome("None", NoGrid, {}))

\* the captured outputs of the engine: a run that ends well, a run that
\* prints 'Error' before it writes a log, and one that prints it after
EngineOutputs == {"ok", "Error", "Error after logs"}

\* the test of stderr instead of the captured output: stderr is redirected
\* to stdout, so self.run_errors never holds the text
ContainsError_Stderr(out) == FALSE

\* 'Error' in self.run_output
ContainsError(out) == out \in {"Error", "Error after logs"}

\* the argument of run() as it is recorded with the call
DeleteFilesArg(delete_files) ==
  IF delete_files THEN "delete_files=True" ELSE "delete_files=False"

(***************************************************************************)
(* run(delete_files).  The captured output of the engine contains 'Error'  *)
(* or not; the engine has written its logs unless it stopped before.       *)
(***************************************************************************)
Run(delete_files) ==
  LET p == EvolutionParams(all_params)
      err == ContainsError(engine_logs.output)
      written == disk \cup WorkingFiles
      logs == LogsWritten(p)
      raw == ReadFluxCsv(engine_logs.flux, max_rows(layout.models))
      built == build_readable_flux_object(raw, layout.models)
      \* the flux stage raised: nothing after it is executed
      failed == p.writeFluxLog /\ ~built.ok
      readLogs == IF failed
                  THEN logs \cap {"total_biomass_log", "flux_log"}
                  ELSE logs
  IN /\ all_params' = p
     /\ UNCHANGED <<layout, engine_logs>>
     /\ IF err
        THEN /\ run_output' = engine_logs.output
             /\ disk' = IF engine_logs.output = "Error after logs"
                        THEN written \cup logs \cup {Manifest}
                        ELSE written
             /\ UNCHANGED tables
             /\ ret' = Returned("run", DeleteFilesArg(delete_files), "", 0,
                                Outcome("None", NoGrid, {}))
        ELSE /\ run_output' = engine_logs.output
             /\ total_biomass' =
                  IF p.writeTotalBiomassLog
                  THEN Frame(<<"cycle">> \o get_model_ids(layout.models),
                             engine_logs.total_biomass)
                  ELSE total_biomass
             /\ fluxes' = IF p.writeFluxLog THEN raw ELSE fluxes
             /\ fluxes_by_species' =
                  IF p.writeFluxLog
                  THEN [set |-> TRUE, dict |-> built.dict]
                  ELSE fluxes_by_species
             /\ media' = IF p.writeMediaLog /\ ~failed
                         THEN Frame(MediaColumns, engine_logs.media)
                         ELSE media
             /\ biomass' = IF p.writeBiomassLog /\ ~failed
                           THEN Frame(BiomassColumns, engine_logs.biomass)
                           ELSE biomass
             /\ genotypes' = IF p.evolution /\ ~failed
                             THEN Frame(GenotypeColumns, engine_logs.genotypes)
                             ELSE genotypes
             /\ specific_media' =
                  IF p.writeSpecificMediaLog /\ ~failed
                  THEN Frame(engine_logs.specific_media[1],
                             Tail(engine_logs.specific_media))
                  ELSE specific_media
             /\ disk' = IF delete_files
                        THEN IF failed
                             THEN (written \cup logs \cup {Manifest}) \ readLogs
                             ELSE (written \cup logs \cup {Manifest})
                                    \ (readLogs \cup WorkingFiles \cup {Manifest})
                        ELSE written \cup logs \cup {Manifest}
             /\ ret' = Returned("run", DeleteFilesArg(delete_files), "", 0,
                                Outcome(IF failed THEN "ValueError" ELSE "None",
                                        NoGrid, readLogs))

(***************************************************************************)
(* Calls of the image accessors.  A method assigns no attribute of self.   *)
(***************************************************************************)
\* the rows of the requested cycle are kept in self.media instead of aux
ImageFrame_FilterInPlace ==
  /\ media' = [media EXCEPT !.rows = SelectSeq(media.rows,
                                         LAMBDA r : r.cycle = ret'.cycle)]
  /\ UNCHANGED <<layout, all_params, engine_logs, disk, run_output,
                 total_biomass, fluxes, fluxes_by_species, biomass,
                 genotypes, specific_media>>

ImageFrame ==
  UNCHANGED <<layout, all_params, engine_logs, disk, run_output, tables>>

GetMetaboliteImage(met, cycle) ==
  /\ ret' = Returned("get_metabolite_image", met, "", cycle,
                     get_metabolite_image(met, cycle))
  /\ ImageFrame

GetBiomassImage(model_id, cycle) ==
  /\ ret' = Returned("get_biomass_image", model_id, "", cycle,
                     get_biomass_image(model_id, cycle))
  /\ ImageFrame

GetFluxImage(model_id, reaction_id, cycle) ==
  /\ ret' = Returned("get_flux_image", model_id, reaction_id, cycle,
                     get_flux_image(model_id, reaction_id, cycle))
  /\ ImageFrame

\* the caller changes a log flag of the parameters object between calls
SetParam(name, value) ==
  /\ all_params' = [all_params EXCEPT ![name] = value]
  /\ ret' = Returned("set_param", "", "", 0, Outcome("None", NoGrid, {}))
  /\ UNCHANGED <<layout, engine_logs, disk, run_output, tables>>

\* the engine will end its next run with the given output
EngineOutcome(out) ==
  /\ engine_logs' = [engine_logs EXCEPT !.output = out]
  /\ ret' = Returned("engine", "", "", 0, Outcome("None", NoGrid, {}))
  /\ UNCHANGED <<layout, all_params, disk, run_output, tables>>

(***************************************************************************)
(* Initial states: the object after __init__, for a layout, parameters and *)
(* the logs the engine will write for them.                                *)
(***************************************************************************)
RxnLists == {SubSeq(RxnNames, 1, n) : n \in 0..Len(RxnNames)}

IdPool == <<"A", "B", "C">>

\* lists of 1..MaxModels models: the first ids of the pool, registered in
\* the order of the pool or in the reverse order, each with its reactions
ModelLists ==
  UNION {{[i \in 1..n |-> [id |-> IdPool[IF rev THEN n + 1 - i ELSE i],
                           reactions |-> rx[i]]] :
            rev \in BOOLEAN, rx \in [1..n -> RxnLists]} : n \in 1..MaxModels}

DefaultModels == <<[id |-> "A", reactions |-> RxnNames],
                   [id |-> "B", reactions |-> SubSeq(RxnNames, 1, 1)]>>

Layout(models) == [models |-> models, grid |-> GridShape, media |-> Mets]

ImageParams == [writeTotalBiomassLog |-> TRUE, writeFluxLog |-> TRUE,
                writeMediaLog |-> TRUE, writeBiomassLog |-> TRUE,
                evolution |-> FALSE, writeSpecificMediaLog |-> FALSE]

AllParams == [writeTotalBiomassLog : BOOLEAN, writeFluxLog : BOOLEAN,
              writeMediaLog : BOOLEAN, writeBiomassLog : BOOLEAN,
              evolution : BOOLEAN, writeSpecificMediaLog : BOOLEAN]

MediaRow(m, c, xy, v) ==
  [metabolite |-> m, cycle |-> c, x |-> xy[1], y |-> xy[2], conc_mmol |-> v]

\* media log lines: glc at cycle 1 on every coordinate, and one record of
\* another metabolite and of another cycle
MediaLines ==
  {MediaRow("glc", 1, xy, v) : xy \in Coords, v \in Vals}
    \cup {MediaRow("ac", 1, <<1, 1>>, 7), MediaRow("glc", 2, <<1, 1>>, 7)}

BiomassRow(c, xy, sp, v) ==
  [cycle |-> c, x |-> xy[1], y |-> xy[2], species |-> sp, biomass |-> v]

BiomassLines(models) ==
  {BiomassRow(1, xy, models[i].id, v) :
     xy \in {<<1, 1>>, <<2, 1>>}, i \in DOMAIN models, v \in Vals}
    \cup {BiomassRow(2, <<1, 1>>, models[1].id, 7)}

\* the reaction values of a flux line: neighbouring positions differ
ValVec(k, b) == [j \in 1..k |-> IF (j + b) % 2 = 0 THEN 5 ELSE 7]

\* flux log lines for a list of models: one line per model, padded to the
\* widest model; for the first model also a line on another cell and, at
\* another cycle, a line that is not padded; and a line whose index is no
\* model's
FluxLines(models) ==
  LET k == max_rows(models) - 4
  IN {<<1, 1, 1, i>> \o ValVec(k, i) : i \in 1..(Len(models) + 1)}
       \cup {<<1, 2, 1, 1>> \o ValVec(k, 0)}
       \cup {<<2, 1, 1, 1>> \o ValVec(Len(models[1].reactions), 0)}

DefaultLogs(models) ==
  [total_biomass |-> <<<<1>> \o [i \in DOMAIN models |-> 5]>>,
   flux |-> <<<<1, 1, 1, 1>> \o [j \in 1..(max_rows(models) - 4) |-> 5]>>,
   media |-> <<MediaRow("glc", 1, <<1, 1>>, 5)>>,
   biomass |-> <<BiomassRow(1, <<1, 1>>, models[1].id, 5)>>,
   output |-> "ok",
   genotypes |-> <<<<"A", "NO_MUT", "A">>>>,
   specific_media |-> <<<<"cycle", "x", "y", "glc">>, <<1, 1, 1, 5>>>>]

InitObject ==
  /\ disk = {}
  /\ run_output = ""
  /\ total_biomass = Unset
  /\ fluxes = Unset
  /\ fluxes_by_species = [set |-> FALSE, dict |-> [id \in {} |-> Unset]]
  /\ media = Unset
  /\ biomass = Unset
  /\ genotypes = Unset
  /\ specific_media = Unset
  /\ ret = NoCall

\* the flux log and the models vary
Init ==
  /\ \E ms \in ModelLists :
       /\ layout = Layout(ms)
       /\ \E f \in SeqsUpTo(FluxLines(ms), MaxFluxRows) :
            engine_logs = [DefaultLogs(ms) EXCEPT !.flux = f]
  /\ all_params = ImageParams
  /\ InitObject

\* the media log varies
InitMedia ==
  /\ layout = Layout(DefaultModels)
  /\ \E f \in SeqsUpTo(MediaLines, MaxMediaRows) :
       engine_logs = [DefaultLogs(DefaultModels) EXCEPT !.media = f]
  /\ all_params = ImageParams
  /\ InitObject

\* the spatial biomass log varies
InitBiomass ==
  /\ layout = Layout(DefaultModels)
  /\ \E f \in SeqsUpTo(BiomassLines(DefaultModels), MaxBiomassRows) :
       engine_logs = [DefaultLogs(DefaultModels) EXCEPT !.biomass = f]
  /\ all_params = ImageParams
  /\ InitObject

InitImages == InitMedia \/ InitBiomass

\* the parameters and the outcome of the engine vary
InitParams ==
  /\ layout = Layout(DefaultModels)
  /\ \E out \in {"ok", "Error"} :
       engine_logs = [DefaultLogs(DefaultModels) EXCEPT !.output = out]
  /\ all_params \in AllParams
  /\ InitObject

\* the calls of a caller that runs with the given delete_files values and
\* queries the given entities and cycles
Calls(deletes, mets, bmodels, fmodels, reactions, cycles) ==
  \/ \E d \in deletes : Run(d)
  \/ \E m \in mets, c \in cycles : GetMetaboliteImage(m, c)
  \/ \E i \in bmodels, c \in cycles : GetBiomassImage(i, c)
  \/ \E i \in fmodels, r \in reactions, c \in cycles : GetFluxImage(i, r, c)

Next == Calls({TRUE}, {"glc"}, {"A"}, {"A"}, {"r1", "x"}, {1})

NextImages ==
  Calls({TRUE}, QueryMets, {"A", "C"}, {"A"}, QueryReactions, QueryCycles)

NextParams ==
  \/ Calls(BOOLEAN, {"glc", "lac"}, {"A", "C"}, {"A", "C"}, {"r1", "x"},
           QueryCycles)
  \/ \E n \in {"writeMediaLog", "writeBiomassLog", "writeFluxLog"},
        b \in BOOLEAN : SetParam(n, b)

\* every combination of the parameters; the engine ends well at first
InitRun ==
  /\ layout = Layout(DefaultModels)
  /\ engine_logs = DefaultLogs(DefaultModels)
  /\ all_params \in AllParams
  /\ InitObject

NextRun ==
  \/ Calls(BOOLEAN, {"glc"}, {"A"}, {"A"}, {"r1"}, {1})
  \/ \E out \in EngineOutputs : EngineOutcome(out)

Spec == Init /\ [][Next]_vars
SpecRun == InitRun /\ [][NextRun]_vars
SpecImages == InitImages /\ [][NextImages]_vars
SpecParams == InitParams /\ [][NextParams]_vars

(***************************************************************************)
(* Flux demultiplexing.                                                    *)
(***************************************************************************)
ModelIdSet == {layout.models[i].id : i \in DOMAIN layout.models}

\* positions in the raw flux table of the rows that carry model-index i
RawIndices(i) == {k \in DOMAIN fluxes.rows : fluxes.rows[k][4] = i}

\* the j-th of them, in table order
NthRaw(i, j) ==
  CHOOSE k \in RawIndices(i) :
    Cardinality({q \in RawIndices(i) : q <= k}) = j

TableOf(i) == fluxes_by_species.dict[layout.models[i].id]

RECURSIVE TotalRows(_)
TotalRows(n) == IF n = 0 THEN 0 ELSE Len(TableOf(n).rows) + TotalRows(n - 1)

IndexColumnInRange ==
  \A k \in DOMAIN fluxes.rows : fluxes.rows[k][4] \in DOMAIN layout.models

\* C2: once run() has read a flux table whose model-index column holds
\* values in 1..number of models, every model has its table; the table of
\* the i-th model holds, in order, exactly the raw rows with model-index i
\* (so a raw row is in the table of its model and in no other, and no table
\* holds a row that is not raw), and the tables together have as many rows
\* as the raw table.
C2_Partition ==
  (fluxes.set /\ IndexColumnInRange) =>
     /\ fluxes_by_species.set
     /\ DOMAIN fluxes_by_species.dict = ModelIdSet
     /\ \A i \in DOMAIN layout.models :
          /\ Len(TableOf(i).rows) = Cardinality(RawIndices(i))
          /\ \A j \in DOMAIN TableOf(i).rows :
               SubSeq(TableOf(i).rows[j], 1, 3)
                 = SubSeq(fluxes.rows[NthRaw(i, j)], 1, 3)
     /\ TotalRows(Len(layout.models)) = Len(fluxes.rows)

\* run() has demultiplexed a table with rows of two different models
C2_Witness ==
  /\ ret.op = "run"
  /\ fluxes.set
  /\ IndexColumnInRange
  /\ Len(layout.models) >= 2
  /\ RawIndices(1) # {}
  /\ RawIndices(2) # {}
  /\ \E k \in RawIndices(1), q \in RawIndices(2) :
       SubSeq(fluxes.rows[k], 1, 3) # SubSeq(fluxes.rows[q], 1, 3)

\* C3: in the table of the i-th model, with n reaction names, the columns
\* are cycle, x, y and then the n reaction names in order; every row has
\* 3 + n values: the raw cycle, x, y and then the first n raw values after
\* the model-index column, so the model-index and the padding are absent.
C3_Columns ==
  fluxes.set =>
     /\ fluxes_by_species.set
     /\ \A i \in DOMAIN layout.models :
          /\ layout.models[i].id \in DOMAIN fluxes_by_species.dict
          /\ TableOf(i).columns
               = <<"cycle", "x", "y">> \o layout.models[i].reactions
          /\ Len(TableOf(i).rows) = Cardinality(RawIndices(i))
          /\ \A j \in DOMAIN TableOf(i).rows :
               LET n == Len(layout.models[i].reactions)
                   raw == fluxes.rows[NthRaw(i, j)]
                   row == TableOf(i).rows[j]
               IN /\ Len(row) = 3 + n
                  /\ \A q \in 1..3 : row[q] = raw[q]
                  /\ \A q \in 1..n : row[3 + q] = raw[4 + q]

\* a row of a model that has fewer reactions than the widest model, with a
\* padding value that differs from the values it keeps
C3_Witness ==
  /\ ret.op = "run"
  /\ fluxes.set
  /\ \E i \in DOMAIN layout.models :
       LET n == Len(layout.models[i].reactions)
       IN /\ n >= 1
          /\ n + 4 < max_rows(layout.models)
          /\ \E k \in RawIndices(i) :
               /\ fluxes.rows[k][4 + n + 1] # fluxes.rows[k][4 + n]
               /\ fluxes.rows[k][4 + n + 1] # NaN

\* C10: with a model of zero reactions in the list, run() completes the
\* demultiplexing: every model has its table, and the table of a
\* zero-reaction model has exactly the columns cycle, x, y and exactly the
\* raw rows that carry the index of that model.
C10_ZeroReactions ==
  (\E i \in DOMAIN layout.models : layout.models[i].reactions = <<>>) =>
     /\ ret.op = "run" => ret.outcome = "None"
     /\ fluxes.set =>
          /\ fluxes_by_species.set
          /\ DOMAIN fluxes_by_species.dict = ModelIdSet
          /\ \A i \in DOMAIN layout.models :
               layout.models[i].reactions = <<>> =>
                 /\ TableOf(i).columns = <<"cycle", "x", "y">>
                 /\ Len(TableOf(i).rows) = Cardinality(RawIndices(i))
                 /\ \A j \in DOMAIN TableOf(i).rows :
                      TableOf(i).rows[j]
                        = SubSeq(fluxes.rows[NthRaw(i, j)], 1, 3)

\* a zero-reaction model with rows, next to a model that has reactions
C10_Witness ==
  /\ ret.op = "run"
  /\ fluxes.set
  /\ \E i, j \in DOMAIN layout.models :
       /\ layout.models[i].reactions = <<>>
       /\ layout.models[j].reactions # <<>>
       /\ RawIndices(i) # {}
       /\ RawIndices(j) # {}

(***************************************************************************)
(* Image accessors: what the last call was asked, and the records of the   *)
(* table that match it.                                                    *)
(***************************************************************************)
ImageOps == {"get_metabolite_image", "get_biomass_image", "get_flux_image"}

Registered(id) == \E i \in DOMAIN layout.models : layout.models[i].id = id

ModelOf(id) == layout.models[CHOOSE i \in DOMAIN layout.models :
                                layout.models[i].id = id]

\* the flag of the log kind that the last call reads
FlagOf(op) ==
  CASE op = "get_metabolite_image" -> all_params.writeMediaLog
    [] op = "get_biomass_image" -> all_params.writeBiomassLog
    [] op = "get_flux_image" -> all_params.writeFluxLog
    [] OTHER -> FALSE

\* the entity of the last call exists: the metabolite is one of the layout,
\* the model id is registered, the reaction is one of that model's names
EntityKnown ==
  CASE ret.op = "get_metabolite_image" -> ret.entity \in layout.media
    [] ret.op = "get_biomass_image" -> Registered(ret.entity)
    [] ret.op = "get_flux_image" ->
         /\ Registered(ret.entity)
         /\ ret.reaction \in Range(ModelOf(ret.entity).reactions)
    [] OTHER -> FALSE

\* the cycle of the last call is one of the cycles of the table it queries
CycleRecorded ==
  CASE ret.op = "get_metabolite_image" ->
         media.set /\ \E k \in DOMAIN media.rows : media.rows[k].cycle = ret.cycle
    [] ret.op = "get_biomass_image" ->
         biomass.set
           /\ \E k \in DOMAIN biomass.rows : biomass.rows[k].cycle = ret.cycle
    [] ret.op = "get_flux_image" ->
         /\ fluxes_by_species.set
         /\ Registered(ret.entity)
         /\ ret.entity \in DOMAIN fluxes_by_species.dict
         /\ \E k \in DOMAIN fluxes_by_species.dict[ret.entity].rows :
              fluxes_by_species.dict[ret.entity].rows[k][1] = ret.cycle
    [] OTHER -> FALSE

ValidCall == ret.op \in ImageOps /\ FlagOf(ret.op) /\ EntityKnown /\ CycleRecorded

\* the records <<x, y, value>> of the queried table that have the cycle and
\* the entity of the last call, in table order
Matching ==
  CASE ret.op = "get_metabolite_image" ->
         LET sel == SelectSeq(media.rows,
                      LAMBDA r : r.cycle = ret.cycle /\ r.metabolite = ret.entity)
         IN [k \in DOMAIN sel |-> <<sel[k].x, sel[k].y, sel[k].conc_mmol>>]
    [] ret.op = "get_biomass_image" ->
         LET sel == SelectSeq(biomass.rows,
                      LAMBDA r : r.cycle = ret.cycle /\ r.species = ret.entity)
         IN [k \in DOMAIN sel |-> <<sel[k].x, sel[k].y, sel[k].biomass>>]
    [] ret.op = "get_flux_image" ->
         LET names == ModelOf(ret.entity).reactions
             pos == 3 + CHOOSE q \in DOMAIN names : names[q] = ret.reaction
             sel == SelectSeq(fluxes_by_species.dict[ret.entity].rows,
                              LAMBDA r : r[1] = ret.cycle)
         IN [k \in DOMAIN sel |-> <<sel[k][2], sel[k][3], sel[k][pos]>>]

InGrid(rec) == rec[1] \in 1..layout.grid[1] /\ rec[2] \in 1..layout.grid[2]

\* the matching records of the cell (r, c), that is x = r + 1 and y = c + 1
At(cell) == {k \in DOMAIN Matching :
               Matching[k][1] = cell[1] + 1 /\ Matching[k][2] = cell[2] + 1}

\* C1: with the log flag set, a call whose metabolite, model id or reaction
\* id is unknown, or whose cycle is not a cycle of the queried table, ends
\* in a raised failure: no grid is returned.
C1_UnknownQueryRaises ==
  (ret.op \in ImageOps /\ FlagOf(ret.op) /\ ~(EntityKnown /\ CycleRecorded))
     => (ret.outcome # "return" /\ ret.grid = NoGrid)

\* C4: get_metabolite_image and get_flux_image, called with a valid entity
\* and a recorded cycle, return a grid of the declared shape in which a
\* cell (r, c) holds the value of a record with that cycle, that entity,
\* x = r + 1 and y = c + 1 when there is one, and zero otherwise.
C4_GridCoordinateCorrect ==
  (ret.op \in {"get_metabolite_image", "get_flux_image"} /\ ValidCall
     /\ ret.outcome = "return")
     => /\ DOMAIN ret.grid = GridCells(layout.grid)
        /\ \A cell \in GridCells(layout.grid) :
             IF At(cell) # {}
             THEN \E k \in At(cell) : ret.grid[cell] = Matching[k][3]
             ELSE ret.grid[cell] = 0

\* C5: get_biomass_image, called with a registered model id and a cycle of
\* the biomass table, returns a grid in which cell (x-1, y-1) holds the
\* biomass of the record of that cycle whose species is the model, and every
\* cell for which the model has no record at that cycle is zero.
C5_BiomassOfModel ==
  (ret.op = "get_biomass_image" /\ ValidCall)
     => /\ ret.outcome = "return"
        /\ DOMAIN ret.grid = GridCells(layout.grid)
        /\ \A cell \in GridCells(layout.grid) :
             IF At(cell) # {}
             THEN \E k \in At(cell) : ret.grid[cell] = Matching[k][3]
             ELSE ret.grid[cell] = 0

\* C6: the value of a matching record whose coordinate is outside the grid
\* is never written: every non-zero value of a returned grid is the value of
\* a record with 1 <= x <= rows and 1 <= y <= columns, in the cell of that
\* record.
C6_OnlyInGridRecordsWritten ==
  (ValidCall /\ ret.outcome = "return")
     => \A cell \in DOMAIN ret.grid :
          ret.grid[cell] # 0 =>
            \E k \in At(cell) : InGrid(Matching[k]) /\ ret.grid[cell] = Matching[k][3]

\* C9: when several matching records have the same (x, y) of the grid, the
\* call does not fail on them, and the cell (x-1, y-1) of the returned grid
\* holds the value of the last of them in table order.
C9_LastWriteWins ==
  (ret.op \in {"get_metabolite_image", "get_flux_image"} /\ ValidCall)
     => \A cell \in GridCells(layout.grid) :
          Cardinality(At(cell)) >= 2 =>
            /\ (\A k \in DOMAIN Matching : InGrid(Matching[k]))
                 => ret.outcome = "return"
            /\ ret.outcome = "return"
                 => ret.grid[cell] = Matching[Max(At(cell))][3]

\* C7: when the flag of the log kind is false, the call raises the "log was
\* not recorded" failure whatever the entity and the cycle are, and it has
\* read no table of the object before it does: no grid is produced.
C7_UnrecordedLogRaises ==
  (ret.op \in ImageOps /\ ~FlagOf(ret.op))
     => /\ ret.outcome =
             (CASE ret.op = "get_metabolite_image" ->
                     "ValueError: media log was not recorded"
                [] ret.op = "get_biomass_image" ->
                     "ValueError: biomass log was not recorded"
                [] ret.op = "get_flux_image" ->
                     "ValueError: flux log was not recorded")
        /\ ret.reads = {}
        /\ ret.grid = NoGrid

\* the media flag is false while the media table is loaded and holds a
\* record of the metabolite and the cycle that were asked for
C7_Witness ==
  /\ ret.op = "get_metabolite_image"
  /\ ~all_params.writeMediaLog
  /\ EntityKnown
  /\ CycleRecorded
  /\ Matching # <<>>

\* the last call again, in the current state of the object
Again(op, entity, reaction, cycle) ==
  CASE op = "get_metabolite_image" ->
         Returned(op, entity, "", cycle, get_metabolite_image(entity, cycle))
    [] op = "get_biomass_image" ->
         Returned(op, entity, "", cycle, get_biomass_image(entity, cycle))
    [] op = "get_flux_image" ->
         Returned(op, entity, reaction, cycle,
                  get_flux_image(entity, reaction, cycle))

\* C8: a call of an image accessor, returning or raising, leaves the tables,
\* the layout, the parameters and the files as they were, and the same call
\* made again in the state it leaves has the same result.
C8_ImageCallsChangeNothing ==
  [][ret'.op \in ImageOps =>
       /\ UNCHANGED <<layout, all_params, engine_logs, disk, run_output, tables>>
       /\ \A op \in ImageOps, e \in QueryMets \cup Ids,
             r \in QueryReactions \cup {""}, c \in QueryCycles :
            (ret'.op = op /\ ret'.entity = e /\ ret'.reaction = r
               /\ ret'.cycle = c)
              => ret' = Again(op, e, r, c)']_vars

\* an image accessor has returned a grid with a value in it
C8_Witness ==
  /\ ret.op \in ImageOps
  /\ ret.outcome = "return"
  /\ \E cell \in DOMAIN ret.grid : ret.grid[cell] # 0
  /\ media.set /\ biomass.set /\ fluxes_by_species.set

\* the logs of the engine, and for each the table run() reads it into
LogFiles ==
  {"total_biomass_log", "flux_log", "media_log", "biomass_log",
   "GENOTYPES_biomass_log", "specific_media_log"}

LogTable(f) ==
  CASE f = "total_biomass_log" -> total_biomass
    [] f = "flux_log" -> fluxes
    [] f = "media_log" -> media
    [] f = "biomass_log" -> biomass
    [] f = "GENOTYPES_biomass_log" -> genotypes
    [] f = "specific_media_log" -> specific_media

\* the log's flag, as run() tests it once evolution has overridden two of them
LogFlagSet(f) ==
  CASE f = "total_biomass_log" -> all_params.writeTotalBiomassLog
    [] f = "flux_log" -> all_params.writeFluxLog
    [] f = "media_log" -> all_params.writeMediaLog
    [] f = "biomass_log" -> all_params.writeBiomassLog
    [] f = "GENOTYPES_biomass_log" -> all_params.evolution
    [] f = "specific_media_log" -> all_params.writeSpecificMediaLog

\* the content of a log as the engine writes it
LogContent(f) ==
  CASE f = "total_biomass_log" -> engine_logs.total_biomass
    [] f = "flux_log" -> engine_logs.flux
    [] f = "media_log" -> engine_logs.media
    [] f = "biomass_log" -> engine_logs.biomass
    [] f = "GENOTYPES_biomass_log" -> engine_logs.genotypes
    [] f = "specific_media_log" -> Tail(engine_logs.specific_media)

\* the table holds what the log holds: as many rows, and the rows themselves
\* wherever the reader pads none of them
HoldsLog(f) ==
  /\ LogTable(f).set
  /\ Len(LogTable(f).rows) = Len(LogContent(f))
  /\ f # "flux_log" => LogTable(f).rows = LogContent(f)

ErrorInOutput == run_output \in {"Error", "Error after logs"}

\* C11: a run() whose captured output contains 'Error' reads no log, leaves
\* every result table as it was and deletes no file, whatever the flags and
\* delete_files are; a run() whose output does not contain it reads exactly
\* the logs whose flag is set, each of them is then the content of its table,
\* and it is off the disk exactly when delete_files is true, while the table
\* of a log whose flag is not set stays as it was.
C11_ErrorOutputReadsNothing ==
  [][ret'.op = "run" =>
       IF ErrorInOutput'
       THEN /\ UNCHANGED tables
            /\ ret'.reads = {}
            /\ disk \subseteq disk'
            /\ run_output' = "Error after logs"
                 => {f \in LogFiles : LogFlagSet(f)'} \subseteq disk'
       ELSE \A f \in LogFiles :
              IF LogFlagSet(f)'
              THEN /\ f \in ret'.reads
                   /\ HoldsLog(f)'
                   /\ f \in disk' <=> ret'.entity = "delete_files=False"
              ELSE /\ f \notin ret'.reads
                   /\ LogTable(f)' = LogTable(f)
                   /\ f \in disk => f \in disk']_vars

\* run(delete_files=True) has ended with 'Error' in its output while every
\* write flag was set, after an earlier run had set the tables and left its
\* logs on the disk
C11_Witness ==
  /\ ret.op = "run"
  /\ ret.entity = "delete_files=True"
  /\ ErrorInOutput
  /\ \A f \in LogFiles \ {"GENOTYPES_biomass_log"} :
        LogFlagSet(f) /\ LogTable(f).set /\ f \in disk

====
